---- MODULE Spec2Model ----
(***************************************************************************)
(* Model of the Streamlit "answer machine" pages (ai_answer_rng.py,        *)
(* ai_boa.py) and of the image generation code (ai_boa.py get_ai_image,    *)
(* ai_image_generator.py).                                                 *)
(*                                                                         *)
(* Python values: a str is a TLA+ string; None and the empty string, which *)
(* the code only ever tests for truthiness, are both the empty string "" in *)
(* the configuration lookups.  Where the code can hand None to a caller     *)
(* (get_ai_image) the value is tagged: PyStr(s) or PyNone.                 *)
(***************************************************************************)
EXTENDS Integers, Sequences, FiniteSets, TLC

\* ------------------------------------------------------------------ bounds
MaxHist == 2
MaxReroll == 2

\* ------------------------------------------------------- string functions
\* whitespace of str.strip() and of the regular expression class \s
\* The characters for which str.isspace() holds, which are also those the
\* regex class \s matches in a str pattern.  Strings here hold characters up
\* to U+00FF; the whitespace beyond that (U+1680, U+2000-U+200A, U+2028,
\* U+2029, U+202F, U+205F, U+3000) cannot be written in them.
VT == ""
FS == ""
GS == ""
RS == ""
US == ""
NEL == ""
NBSP == " "

IsSpace(c) == c \in {" ", "\t", "\n", "\r", "\f", VT, FS, GS, RS, US, NEL, NBSP}

RECURSIVE lstrip(_)
lstrip(s) ==
    IF Len(s) > 0 /\ IsSpace(SubSeq(s, 1, 1))
    THEN lstrip(SubSeq(s, 2, Len(s)))
    ELSE s

RECURSIVE rstrip(_)
rstrip(s) ==
    IF Len(s) > 0 /\ IsSpace(SubSeq(s, Len(s), Len(s)))
    THEN rstrip(SubSeq(s, 1, Len(s) - 1))
    ELSE s

\* str.strip()
strip(s) == rstrip(lstrip(s))

\* str.startswith(p)
startswith(s, p) == Len(s) >= Len(p) /\ SubSeq(s, 1, Len(p)) = p

\* truthiness of a str (or None, modelled as "")
Truthy(s) == s # ""

\* Python's `a or b` on strings
Or(a, b) == IF Truthy(a) THEN a ELSE b

\* -------------------------------------------------- configuration lookups
DefaultBase == "https://api.poe.com/v1"
DefaultModel == "gpt-3.5-turbo"
\* The source text quotes API_KEY in backquotes, which a TLA+ string cannot hold.
KeyNotFound == "API key not found. Set API_KEY in .env, environment, or Streamlit secrets."

\* env: the outcome of everything outside the program for one resolver call
\*   API_KEY         module variable API_KEY = os.getenv("API_KEY")
\*   environ_API_KEY os.environ.get("API_KEY") at call time
\*   secrets_raises  st.secrets.get raises (no secrets file)
\*   secrets_API_KEY st.secrets.get("API_KEY")
\*   API_BASE, POE_BASE_URL, MODEL   os.environ.get(...)
\*   ctor            "" if openai.OpenAI(...) returns, else the exception text
\*   call            "" if chat.completions.create returns, else the exception text
\*   resp            the response object (see Responses)

get_api_base(env) == Or(env.API_BASE, Or(env.POE_BASE_URL, DefaultBase))

get_model(env) == Or(env.MODEL, DefaultModel)

NoClient == [api_key |-> "", base_url |-> ""]

\* _get_client that asks the secrets store before the environment
get_client_secrets_first(env) ==
    LET key0 == IF env.secrets_raises THEN "" ELSE env.secrets_API_KEY
        key  == IF ~Truthy(key0)
                THEN Or(env.API_KEY, env.environ_API_KEY)
                ELSE key0
    IN  IF ~Truthy(key)
        THEN [client |-> NoClient, err |-> KeyNotFound]
        ELSE IF env.ctor = ""
             THEN [client |-> [api_key |-> key, base_url |-> get_api_base(env)],
                   err |-> ""]
             ELSE [client |-> NoClient,
                   err |-> "Failed to initialize OpenAI client: " \o env.ctor]

get_client(env) ==
    LET key0 == Or(env.API_KEY, env.environ_API_KEY)
        key  == IF ~Truthy(key0)
                THEN (IF env.secrets_raises THEN "" ELSE env.secrets_API_KEY)
                ELSE key0
    IN  IF ~Truthy(key)
        THEN [client |-> NoClient, err |-> KeyNotFound]
        ELSE IF env.ctor = ""
             THEN [client |-> [api_key |-> key, base_url |-> get_api_base(env)],
                   err |-> ""]
             ELSE [client |-> NoClient,
                   err |-> "Failed to initialize OpenAI client: " \o env.ctor]

\* ------------------------------------------------------------ get_ai_answer
system_prompt ==
    "You are a close friend giving advice on life questions."
    \o "Keep the answer fun and in a relaxing, suggestive way, and often use slang or meme language. "
    \o "Use gangster like style or language to talk, such as 'bruv', 'dude', 'bro', 'dunno', 'ig', 'prob', etc, but don't overuse them, STRICTLY maximum 1 within 3 sentences."
    \o "Use informal tone, such as 'Idk bro, maybe a piece of burrito would be nice?' or 'Bruv, just chill and vibe, y'know?'. "
    \o "Respond in first person, like 'I think you should...' or 'How about...'. "
    \o "Use less punctuation, such as 'idk bro' or 'that may be fun i guess'."
    \o "Keep answers short, around 20-40 words, simple, easy-to-understand, and positive."

\* A response object: shape "text" has choices[0].message.content a str;
\* "no_choices" has an empty choices list (IndexError); "none_content" has
\* content None (AttributeError on .strip()).  repr is str(resp).
first_choice_content(resp) ==
    IF resp.shape = "text"
    THEN [raised |-> FALSE, value |-> strip(resp.content)]
    ELSE [raised |-> TRUE, value |-> ""]

\* get_ai_answer without the inner try/except around
\* resp.choices[0].message.content.strip(): its failure escapes.
get_ai_answer_noguard(question, temperature, max_tokens, env) ==
    LET ce == get_client(env)
        request == [api_key |-> ce.client.api_key,
                    base_url |-> ce.client.base_url,
                    model |-> get_model(env),
                    messages |-> << [role |-> "system", content |-> system_prompt],
                                    [role |-> "user", content |-> question] >>,
                    temperature |-> temperature,
                    max_tokens |-> max_tokens]
        fc == first_choice_content(env.resp)
    IN  IF Truthy(ce.err)
        THEN [kind |-> "return", value |-> ce.err, path |-> "client_error", calls |-> << >>]
        ELSE IF env.call # ""
        THEN [kind |-> "return", value |-> "Error calling completion API: " \o env.call,
              path |-> "call_failed", calls |-> << request >>]
        ELSE IF fc.raised
        THEN [kind |-> "raise", value |-> "", path |-> "bad_response", calls |-> << request >>]
        ELSE [kind |-> "return", value |-> fc.value, path |-> "ok", calls |-> << request >>]

\* Result of one call of get_ai_answer:
\*   kind   "return" or "raise" (an exception reaches the caller)
\*   value  the returned str
\*   path   which return statement produced it
\*   calls  the completion requests issued
get_ai_answer(question, temperature, max_tokens, env) ==
    LET ce == get_client(env)
        request == [api_key |-> ce.client.api_key,
                    base_url |-> ce.client.base_url,
                    model |-> get_model(env),
                    messages |-> << [role |-> "system", content |-> system_prompt],
                                    [role |-> "user", content |-> question] >>,
                    temperature |-> temperature,
                    max_tokens |-> max_tokens]
        fc == first_choice_content(env.resp)
    IN  IF Truthy(ce.err)
        THEN [kind |-> "return", value |-> ce.err, path |-> "client_error", calls |-> << >>]
        ELSE IF env.call # ""
        THEN [kind |-> "return", value |-> "Error calling completion API: " \o env.call,
              path |-> "call_failed", calls |-> << request >>]
        ELSE IF fc.raised
        THEN [kind |-> "return", value |-> env.resp.repr, path |-> "bad_response",
              calls |-> << request >>]
        ELSE [kind |-> "return", value |-> fc.value, path |-> "ok", calls |-> << request >>]

\* --------------------------------------------------------- image resolvers
PyStr(s) == << "str", s >>
PyNone == << "None" >>

\* re.search(r'https?://[^\s\)]+', s): the first (leftmost, greedy) match
UrlChar(c) == ~IsSpace(c) /\ c # ")"

SchemeLenAt(s, i) ==
    IF i + 7 <= Len(s) /\ SubSeq(s, i, i + 7) = "https://" THEN 8
    ELSE IF i + 6 <= Len(s) /\ SubSeq(s, i, i + 6) = "http://" THEN 7
    ELSE 0

RECURSIVE UrlRun(_, _)
UrlRun(s, i) ==
    IF i <= Len(s) /\ UrlChar(SubSeq(s, i, i)) THEN 1 + UrlRun(s, i + 1) ELSE 0

MatchAt(s, i) ==
    LET n == SchemeLenAt(s, i) IN n > 0 /\ UrlRun(s, i + n) > 0

url_search(s) ==
    LET starts == { i \in 1..Len(s) : MatchAt(s, i) }
    IN  IF starts = {}
        THEN [found |-> FALSE, group0 |-> ""]
        ELSE LET i == CHOOSE j \in starts : \A k \in starts : j <= k
                 n == SchemeLenAt(s, i)
             IN  [found |-> TRUE, group0 |-> SubSeq(s, i, i + n + UrlRun(s, i + n) - 1)]

\* response.choices[0].message.content followed by re.search on it:
\* raises for a response without a first choice (IndexError) and for content
\* None (TypeError)
content_url(resp) ==
    IF resp.shape = "no_choices"
    THEN [raised |-> TRUE, error |-> "list index out of range", found |-> FALSE, url |-> "",
          content |-> ""]
    ELSE IF resp.shape = "none_content"
    THEN [raised |-> TRUE, error |-> "expected string or bytes-like object, got 'NoneType'",
          found |-> FALSE, url |-> "", content |-> ""]
    ELSE [raised |-> FALSE, error |-> "", found |-> url_search(resp.content).found,
          url |-> url_search(resp.content).group0, content |-> resp.content]

image_request(model, content) ==
    [model |-> model, content |-> content, aspect |-> "3:2", quality |-> "high"]

\* ai_boa.get_ai_image.  Result:
\*   kind    "return" or "raise"
\*   value   the returned value, PyStr(s) or PyNone
\*   primary "none" (no call issued), "ok" or "failed" (the call raised)
\*   calls   the requests issued, in order
get_ai_image(prompt, env) ==
    LET ce == get_client(env)
        request == image_request("Imagen-4",
                       "accord to the user prompt to genertate an image:" \o prompt)
        cu == content_url(env.resp)
    IN  IF Truthy(ce.err)
        THEN [kind |-> "return", value |-> PyStr(ce.err), primary |-> "none", calls |-> << >>]
        ELSE IF env.call # ""
        THEN [kind |-> "return", value |-> PyStr("Error generating image: " \o env.call),
              primary |-> "failed", calls |-> << request >>]
        ELSE IF cu.raised
        THEN [kind |-> "return", value |-> PyStr("Error generating image: " \o cu.error),
              primary |-> "ok", calls |-> << request >>]
        ELSE IF cu.found
        THEN [kind |-> "return", value |-> PyStr(cu.url), primary |-> "ok",
              calls |-> << request >>]
        ELSE [kind |-> "return", value |-> PyNone, primary |-> "ok", calls |-> << request >>]

\* ai_image_generator.py as it stands is rejected by the compiler: the except
\* of line 95 is indented less than the body of its try (line 74) and more
\* than the try itself.  Python compiles a file whole before it runs any of
\* it, so every run of the file ends with this IndentationError and none of
\* its statements is executed.  The definitions below keep what the text of
\* the file says under that fact.
generator_compiles == FALSE

IndentationError ==
    "unindent does not match any outer indentation level (ai_image_generator.py, line 95)"

\* ai_image_generator.py, lines 74-120.  The text of the block reads four
\* names the file never binds (image_prompt, re, question2, recipe_title): ctx.bound says
\* whether the surrounding context binds them; when it does not, reading the
\* first one raises NameError before any request is issued, in both stages.
\* The keys of the colour table are Chinese colour names in the source; they
\* are written here by their code points.
color_names ==
    [ k \in {"U+7D05U+8272", "U+6A59U+8272", "U+9EC3U+8272", "U+7DA0U+8272", "U+85CDU+8272",
             "U+7D2BU+8272", "U+7C89U+7D05U+8272", "U+767DU+8272", "U+9ED1U+8272",
             "U+91D1U+8272"} |->
        CASE k = "U+7D05U+8272" -> "red"
          [] k = "U+6A59U+8272" -> "orange"
          [] k = "U+9EC3U+8272" -> "yellow"
          [] k = "U+7DA0U+8272" -> "green"
          [] k = "U+85CDU+8272" -> "blue"
          [] k = "U+7D2BU+8272" -> "purple"
          [] k = "U+7C89U+7D05U+8272" -> "pink"
          [] k = "U+767DU+8272" -> "white"
          [] k = "U+9ED1U+8272" -> "black"
          [] k = "U+91D1U+8272" -> "gold" ]

simple_prompt(ctx) ==
    LET color_name == IF ctx.question2 \in DOMAIN color_names
                      THEN color_names[ctx.question2] ELSE ""
    IN  "A beautiful, professional food photograph of " \o ctx.recipe_title
        \o (IF Truthy(color_name) THEN " with " \o color_name \o " color accents" ELSE "")
        \o ", appetizing, well-lit, high quality"

\* one stage of the block: the request, then the URL extraction
\* (image_url is the match, or the raw content when nothing matches)
stage(p) ==
    LET cu == content_url(p.resp)
    IN  IF p.call # "" THEN [raised |-> TRUE, error |-> p.call, image_url |-> ""]
        ELSE IF cu.raised THEN [raised |-> TRUE, error |-> cu.error, image_url |-> ""]
        ELSE [raised |-> FALSE, error |-> "",
              image_url |-> IF cu.found THEN cu.url ELSE cu.content]

image_generation_block(ctx, p1, p2) ==
    LET first == image_request("Qwen-Image", ctx.image_prompt)
        second == image_request("Qwen-Image", simple_prompt(ctx))
        s1 == stage(p1)
        s2 == stage(p2)
    IN  IF ~generator_compiles
        THEN [kind |-> "raise", value |-> PyStr(IndentationError), primary |-> "none",
              calls |-> << >>]
        ELSE IF ~ctx.bound
        THEN [kind |-> "raise",
              value |-> PyStr("Qwen-Image generation failed: name 'question2' is not defined"),
              primary |-> "none", calls |-> << >>]
        ELSE IF ~s1.raised
        THEN [kind |-> "return", value |-> PyStr(s1.image_url), primary |-> "ok",
              calls |-> << first >>]
        ELSE IF ~s2.raised
        THEN [kind |-> "return", value |-> PyStr(s2.image_url),
              primary |-> IF p1.call # "" THEN "failed" ELSE "ok",
              calls |-> << first, second >>]
        ELSE [kind |-> "raise",
              value |-> PyStr("Qwen-Image generation failed: " \o s2.error),
              primary |-> IF p1.call # "" THEN "failed" ELSE "ok",
              calls |-> << first, second >>]

\* ai_image_generator.py, lines 35-45 and 69-124: the form's submit handler.
\* api_key_present is whether openai.OpenAI(...) returned at start-up.
\* value is image_url (PyNone when the handler never assigns it), shown the
\* message the handler displays instead.
submit_image_form(prompt_text, api_key_present, ctx, p1, p2) ==
    IF ~generator_compiles
    THEN [kind |-> "raise", value |-> PyStr(IndentationError), primary |-> "none",
          calls |-> << >>, shown |-> ""]
    ELSE IF api_key_present
    THEN IF ~Truthy(prompt_text)
         THEN [kind |-> "return", value |-> PyNone, primary |-> "none", calls |-> << >>,
               shown |-> "Please enter a description to generate an image."]
         ELSE [shown |-> ""] @@ image_generation_block(ctx, p1, p2)
    ELSE [kind |-> "return", value |-> PyNone, primary |-> "none", calls |-> << >>,
          shown |-> "Cannot generate image because the API key is missing."]

\* ------------------------------------------------------------ input sets
Responses ==
    { [shape |-> "text", content |-> " A\n", repr |-> "ChatCompletion(A)"],
      [shape |-> "text", content |-> "Error is human", repr |-> "ChatCompletion(E)"],
      [shape |-> "no_choices", content |-> "", repr |-> "ChatCompletion(choices=[])"],
      [shape |-> "none_content", content |-> "", repr |-> "ChatCompletion(content=None)"] }

Envs ==
    [ API_KEY : {"", "k-mod"}, environ_API_KEY : {"", "k-env"},
      secrets_raises : BOOLEAN, secrets_API_KEY : {"", "k-sec"},
      API_BASE : {"", "https://proxy/v1"}, POE_BASE_URL : {"", "https://poe/v1"},
      MODEL : {"", "gpt-4o"},
      ctor : {"", "bad base url"}, call : {"", "timeout"},
      resp : Responses ]

\* temperature in units of 0.05 (the slider's step): 8 is the default 0.4
Temperatures == {0, 8}
MaxTokens == {50, 300}
ResolverQuestions == {"x", "How can I be happy?"}

\* a configured environment in which everything succeeds
BaseEnv ==
    [ API_KEY |-> "k-mod", environ_API_KEY |-> "", secrets_raises |-> TRUE,
      secrets_API_KEY |-> "", API_BASE |-> "", POE_BASE_URL |-> "", MODEL |-> "",
      ctor |-> "", call |-> "",
      resp |-> [shape |-> "text", content |-> " A\n", repr |-> "ChatCompletion(A)"] ]

\* image responses and prompts
ImageResponses ==
    { [shape |-> "text", content |-> "https://img.example/a.png", repr |-> ""],
      [shape |-> "text", content |-> "![image](https://img.example/b.png) enjoy", repr |-> ""],
      [shape |-> "text", content |-> "no image, sorry", repr |-> ""],
      [shape |-> "text", content |-> "https://img.example/c.png" \o VT \o "enjoy", repr |-> ""],
      [shape |-> "no_choices", content |-> "", repr |-> ""],
      [shape |-> "none_content", content |-> "", repr |-> ""] }

ImageEnvs ==
    { [BaseEnv EXCEPT !.API_KEY = k, !.ctor = c, !.call = e, !.resp = r] :
        k \in {"", "k-mod"}, c \in {"", "bad base url"}, e \in {"", "rate limited"},
        r \in ImageResponses }

ImagePrompts == {"", "a flying burrito", "a sleepy cat"}

StageOutcomes == [call : {"", "rate limited"}, resp : ImageResponses]

Contexts ==
    [bound : BOOLEAN, image_prompt : {"a lion wearing a crown"},
     question2 : {"U+7D05U+8272", "none"}, recipe_title : {"mapo tofu"}]

\* What the session pages draw from: the text typed into the question box (none,
\* whitespace only, a question with whitespace around it), the resolver outcomes
\* of a session, the sidebar settings.
TextInputs == {"", " \t" \o VT, " y "}

\* a generated answer, a failed completion call, a missing key
SessionEnvs ==
    { BaseEnv,
      [BaseEnv EXCEPT !.call = "timeout"],
      [BaseEnv EXCEPT !.API_KEY = ""] }

SessionTemperatures == {8}
SessionMaxTokens == {300}

preset_questions ==
    << "How can I be happy?",
       "What should I eat for health?",
       "Why is exercise important?",
       "How to make new friends?",
       "How to study better?",
       "How to save money?",
       "How to be kind to others?" >>

\* the preset question selected in the selectbox of preset_page
PresetChoices == {1}

\* ------------------------------------------------------------------ state
\* st.session_state of one browser session:
\*   keys       which of "question", "answer", "reroll", "cat_image" are present
\*              ("history" and "has_asked" are set when the script is loaded)
\*   question, answer, reroll, history, has_asked   the entries themselves;
\*              an absent entry is shown with the value its initialisation gives it
\* pc: where the session's script run stands. A run that reaches no
\*      get_ai_answer or get_ai_image call is one step. A run of Get Answer,
\*      Reroll Answer, the preset Get Answer or Generate with AI is at
\*      "spinner" when it reaches `with st.spinner(...)`, at "call" while it is
\*      blocked in the resolver, and "idle" again when the handler has finished
\*      or the run was ended at the st.spinner call; pc.q is the question (the
\*      image prompt) the call is given and pc.pre the session fields as they
\*      were when the button was pressed
\* last: the step taken last: the handler, its inputs, the resolver result it
\*      got and the part of the run the step is (phase)
\* resolved: one call of get_ai_answer and one of get_ai_image under the same
\*      configuration, their inputs and (once called) their results
\* cat_image: st.session_state.cat_image of the Chillspace page, present once
\*            "cat_image" is in keys
\* image: the image request handled last (app, prompt, the response given to
\*        its primary call, and outcome)
\* run: whether the session is in a run "Get Answer, then only accepted
\*      rerolls", with the question asked, the number of rerolls since and the
\*      history as it was before the Get Answer
\* sessions: the st.session_state of the browser session running ai_boa.py,
\*      as a record of the same six fields and the position of the session's
\*      script run
\* actor: the ai_boa.py session whose script run took a step last (0 before any)
VARIABLES keys, question, answer, reroll, history, has_asked, last, resolved,
          cat_image, image, run, pc, sessions, actor

session == << keys, question, answer, reroll, history, has_asked >>

vars == << keys, question, answer, reroll, history, has_asked, last, resolved,
           cat_image, image, run, pc, sessions, actor >>

Sessions == {1}

SessionIdle == [at |-> "idle", op |-> "none", q |-> ""]

\* a session's st.session_state after the module-level initialisation
InitStore ==
    [keys |-> {}, question |-> "", answer |-> "", reroll |-> 0, history |-> << >>,
     has_asked |-> FALSE, pc |-> SessionIdle]

InitSessions ==
    /\ sessions = [s \in Sessions |-> InitStore]
    /\ actor = 0

NoRun == [active |-> FALSE, q |-> "", n |-> 0, base |-> << >>]

NoPre ==
    [question |-> "", answer |-> "", reroll |-> 0, history |-> << >>, has_asked |-> FALSE]

Idle ==
    [at |-> "idle", op |-> "none", q |-> "", temperature |-> 0, max_tokens |-> 0,
     pre |-> NoPre]

\* the script run has reached `with st.spinner(...)` of handler op
AtSpinner(op, q, temperature, max_tokens) ==
    [at |-> "spinner", op |-> op, q |-> q, temperature |-> temperature,
     max_tokens |-> max_tokens,
     pre |-> [question |-> question, answer |-> answer, reroll |-> reroll,
              history |-> history, has_asked |-> has_asked]]

\* phase: "run" a whole script run, "press" a run up to its st.spinner call,
\* "call" the entry into get_ai_answer, "return" the rest of the handler,
\* "stopped" the end of a run at its st.spinner call
Step(op, page, q, a, accepted, ncalls, path, phase) ==
    [op |-> op, page |-> page, q |-> q, a |-> a, accepted |-> accepted,
     ncalls |-> ncalls, path |-> path, phase |-> phase]

NoResult == [kind |-> "none", value |-> "", path |-> "", calls |-> << >>]

NoImageResult == [kind |-> "none", value |-> PyNone, primary |-> "none", calls |-> << >>]

NotResolved ==
    [question |-> "", temperature |-> 0, max_tokens |-> 0, env |-> BaseEnv,
     called |-> FALSE, result |-> NoResult, image |-> NoImageResult]

HomeKeys == {"question", "answer", "reroll"}

\* the default cat_image of ai_boa.py
NyanCat == "https://i.imgur.com/k6wZt0i.gif"

\* the default cat_image of ai_answer_rng.py
GlitchyNyanCat ==
    "https://static.wikia.nocookie.net/nyancat/images/4/44/Glitchynyancatgif.gif/revision/latest/scale-to-width-down/250?cb=20210323054747"

SwitchImages ==
    { "https://media.tenor.com/vkYnJE2Jdj8AAAAe/oh-my-god.png",
      "https://static.wikia.nocookie.net/find-the-yaais/images/5/55/YAAI.png/revision/latest?cb=20240731032833",
      "https://static.wikia.nocookie.net/nyancat/images/4/44/Glitchynyancatgif.gif/revision/latest/scale-to-width-down/250?cb=20210323054747" }

NoResponse == [shape |-> "none", content |-> "", repr |-> ""]

NoImage ==
    [app |-> "none", prompt |-> "", kind |-> "none", value |-> PyNone, primary |-> "none",
     calls |-> << >>, shown |-> "", resp |-> NoResponse]

\* ai_boa.py: the value cat_image is given when it is absent
InitImage ==
    /\ cat_image = PyStr(NyanCat)
    /\ image = NoImage

\* ai_answer_rng.py: the value cat_image is given when it is absent
InitRngImage ==
    /\ cat_image = PyStr(GlitchyNyanCat)
    /\ image = NoImage

\* module level: history = [], has_asked = False
InitSession ==
    /\ keys = {}
    /\ question = ""
    /\ answer = ""
    /\ reroll = 0
    /\ history = << >>
    /\ has_asked = FALSE
    /\ last = Step("load", "", "", "", TRUE, 0, "none", "run")
    /\ run = NoRun
    /\ pc = Idle

\* ------------------------------------------------------------ page handlers
\* home() run with no button pressed: the three entries are created if absent
VisitHome ==
    /\ pc.at = "idle"
    /\ keys' = keys \cup HomeKeys
    /\ last' = Step("visit", "home", "", "", TRUE, 0, "none", "run")
    /\ run' = NoRun
    /\ UNCHANGED << question, answer, reroll, history, has_asked, resolved, cat_image,
                    image, pc >>

\* Clear History that leaves the reroll counter alone
ClearHistory_keeps_reroll(page) ==
    /\ pc.at = "idle"
    /\ page = "home" => HomeKeys \subseteq keys
    /\ history' = << >>
    /\ question' = ""
    /\ answer' = ""
    /\ keys' = keys \cup HomeKeys
    /\ last' = Step("clear", page, "", "", TRUE, 0, "none", "run")
    /\ run' = NoRun
    /\ UNCHANGED << reroll, has_asked, resolved, cat_image, image, pc >>

\* "Clear History" in the sidebar of home, history_page and preset_page
ClearHistory(page) ==
    /\ pc.at = "idle"
    /\ page = "home" => HomeKeys \subseteq keys
    /\ history' = << >>
    /\ question' = ""
    /\ answer' = ""
    /\ reroll' = 0
    /\ keys' = keys \cup HomeKeys
    /\ last' = Step("clear", page, "", "", TRUE, 0, "none", "run")
    /\ run' = NoRun
    /\ UNCHANGED << has_asked, resolved, cat_image, image, pc >>

\* the test of "Get Answer" without the strip()
ask_accepts_nostrip(q) == Truthy(q)

\* `if question.strip():`
ask_accepts(q) == Truthy(strip(q))

\* Get Answer that calls get_ai_answer before it tests the question
GetAnswer_calls_first(q, temperature, max_tokens) ==
    /\ pc.at = "idle"
    /\ HomeKeys \subseteq keys
    /\ IF ask_accepts(q)
       THEN /\ Len(history) < MaxHist
            /\ question' = q
            /\ pc' = AtSpinner("ask", q, temperature, max_tokens)
            /\ last' = Step("ask", "home", q, "", TRUE, 0, "none", "press")
       ELSE /\ last' = Step("ask", "home", q, "", FALSE, Len(get_ai_answer(q, temperature, max_tokens, BaseEnv).calls), "none", "run")
            /\ UNCHANGED << question, pc >>
    /\ run' = NoRun
    /\ UNCHANGED << keys, answer, reroll, history, has_asked, resolved, cat_image, image >>

\* Get Answer that refuses a new question while the answer shown is an error
GetAnswer_sticky_failure(q, temperature, max_tokens) ==
    /\ pc.at = "idle"
    /\ HomeKeys \subseteq keys
    /\ ~startswith(answer, "Error")
    /\ IF ask_accepts(q)
       THEN /\ Len(history) < MaxHist
            /\ question' = q
            /\ pc' = AtSpinner("ask", q, temperature, max_tokens)
            /\ last' = Step("ask", "home", q, "", TRUE, 0, "none", "press")
       ELSE /\ last' = Step("ask", "home", q, "", FALSE, 0, "none", "run")
            /\ UNCHANGED << question, pc >>
    /\ run' = NoRun
    /\ UNCHANGED << keys, answer, reroll, history, has_asked, resolved, cat_image, image >>

\* "Get Answer" on home, up to the st.spinner(...) call: the test of the text
\* and `st.session_state.question = question`
GetAnswer(q, temperature, max_tokens) ==
    /\ pc.at = "idle"
    /\ HomeKeys \subseteq keys
    /\ IF ask_accepts(q)
       THEN /\ Len(history) < MaxHist
            /\ question' = q
            /\ pc' = AtSpinner("ask", q, temperature, max_tokens)
            /\ last' = Step("ask", "home", q, "", TRUE, 0, "none", "press")
       ELSE /\ last' = Step("ask", "home", q, "", FALSE, 0, "none", "run")
            /\ UNCHANGED << question, pc >>
    /\ run' = NoRun
    /\ UNCHANGED << keys, answer, reroll, history, has_asked, resolved, cat_image, image >>

\* a Get Answer that does not set the reroll counter back to 0
GetAnswerReturn_keeps_reroll(env) ==
    /\ pc.at = "call"
    /\ pc.op = "ask"
    /\ LET r == get_ai_answer(pc.q, pc.temperature, pc.max_tokens, env)
       IN  /\ answer' = r.value
           /\ UNCHANGED reroll
           /\ history' = Append(history, [question |-> pc.q, answer |-> r.value, rerolls |-> 0])
           /\ has_asked' = TRUE
           /\ last' = Step("ask", "home", pc.q, r.value, TRUE, Len(r.calls), r.path, "return")
    /\ run' = [active |-> TRUE, q |-> pc.q, n |-> 0, base |-> history]
    /\ pc' = Idle
    /\ UNCHANGED << keys, question, resolved, cat_image, image >>

\* "Get Answer" on home, from the return of get_ai_answer: answer, reroll = 0,
\* history.append, has_asked = True
GetAnswerReturn(env) ==
    /\ pc.at = "call"
    /\ pc.op = "ask"
    /\ LET r == get_ai_answer(pc.q, pc.temperature, pc.max_tokens, env)
       IN  /\ answer' = r.value
           /\ reroll' = 0
           /\ history' = Append(history, [question |-> pc.q, answer |-> r.value, rerolls |-> 0])
           /\ has_asked' = TRUE
           /\ last' = Step("ask", "home", pc.q, r.value, TRUE, Len(r.calls), r.path, "return")
    /\ run' = [active |-> TRUE, q |-> pc.q, n |-> 0, base |-> history]
    /\ pc' = Idle
    /\ UNCHANGED << keys, question, resolved, cat_image, image >>

\* a Reroll Answer button that does not look at the current question
reroll_accepts_always(q) == TRUE

\* `if st.session_state.question:`
reroll_accepts(q) == Truthy(q)

\* "Reroll Answer" on home, up to the st.spinner(...) call: the test of the
\* current question and `st.session_state.reroll += 1`
RerollAnswer(temperature, max_tokens) ==
    /\ pc.at = "idle"
    /\ HomeKeys \subseteq keys
    /\ IF reroll_accepts(question)
       THEN /\ reroll < MaxReroll
            /\ reroll' = reroll + 1
            /\ pc' = AtSpinner("reroll", question, temperature, max_tokens)
            /\ last' = Step("reroll", "home", question, "", TRUE, 0, "none", "press")
            /\ UNCHANGED run
       ELSE /\ last' = Step("reroll", "home", question, "", FALSE, 0, "none", "run")
            /\ run' = NoRun
            /\ UNCHANGED << reroll, pc >>
    /\ UNCHANGED << keys, question, answer, history, has_asked, resolved, cat_image, image >>

\* a Reroll Answer that stores the new answer in the last history entry but
\* not the new reroll count
RerollAnswerReturn_stale_rerolls(env) ==
    /\ pc.at = "call"
    /\ pc.op = "reroll"
    /\ LET r == get_ai_answer(pc.q, pc.temperature, pc.max_tokens, env)
       IN  /\ answer' = r.value
           /\ history' = IF history # << >>
                         THEN [history EXCEPT ![Len(history)] = [@ EXCEPT !.answer = r.value]]
                         ELSE history
           /\ last' = Step("reroll", "home", pc.q, r.value, TRUE, Len(r.calls), r.path, "return")
    /\ run' = IF run.active THEN [run EXCEPT !.n = @ + 1] ELSE NoRun
    /\ pc' = Idle
    /\ UNCHANGED << keys, question, reroll, has_asked, resolved, cat_image, image >>

\* a Reroll Answer that appends a new history entry instead of overwriting the last
RerollAnswerReturn_appends(env) ==
    /\ pc.at = "call"
    /\ pc.op = "reroll"
    /\ LET r == get_ai_answer(pc.q, pc.temperature, pc.max_tokens, env)
       IN  /\ answer' = r.value
           /\ Len(history) < MaxHist
           /\ history' = Append(history, [question |-> pc.q, answer |-> r.value,
                                          rerolls |-> reroll])
           /\ last' = Step("reroll", "home", pc.q, r.value, TRUE, Len(r.calls), r.path, "return")
    /\ run' = IF run.active THEN [run EXCEPT !.n = @ + 1] ELSE NoRun
    /\ pc' = Idle
    /\ UNCHANGED << keys, question, reroll, has_asked, resolved, cat_image, image >>

\* "Reroll Answer" on home, from the return of get_ai_answer: answer and, if
\* the history is not empty, history[-1]["answer"] and history[-1]["rerolls"]
RerollAnswerReturn(env) ==
    /\ pc.at = "call"
    /\ pc.op = "reroll"
    /\ LET r == get_ai_answer(pc.q, pc.temperature, pc.max_tokens, env)
       IN  /\ answer' = r.value
           /\ history' = IF history # << >>
                         THEN [history EXCEPT ![Len(history)] =
                                  [@ EXCEPT !.answer = r.value, !.rerolls = reroll]]
                         ELSE history
           /\ last' = Step("reroll", "home", pc.q, r.value, TRUE, Len(r.calls), r.path, "return")
    /\ run' = IF run.active THEN [run EXCEPT !.n = @ + 1] ELSE NoRun
    /\ pc' = Idle
    /\ UNCHANGED << keys, question, reroll, has_asked, resolved, cat_image, image >>

\* "Get Answer" on preset_page, up to the st.spinner(...) call (nothing is
\* written before it)
GetAnswerForPreset(i, temperature, max_tokens) ==
    /\ pc.at = "idle"
    /\ Len(history) < MaxHist
    /\ pc' = AtSpinner("preset", preset_questions[i], temperature, max_tokens)
    /\ last' = Step("preset", "preset", preset_questions[i], "", TRUE, 0, "none", "press")
    /\ run' = NoRun
    /\ UNCHANGED << keys, question, answer, reroll, history, has_asked, resolved,
                    cat_image, image >>

\* a preset Get Answer that stores the session reroll counter in the entry
GetAnswerForPresetReturn_session_rerolls(env) ==
    /\ pc.at = "call"
    /\ pc.op = "preset"
    /\ LET r == get_ai_answer(pc.q, pc.temperature, pc.max_tokens, env)
       IN  /\ history' = Append(history, [question |-> pc.q, answer |-> r.value,
                                          rerolls |-> reroll])
           /\ has_asked' = TRUE
           /\ last' = Step("preset", "preset", pc.q, r.value, TRUE, Len(r.calls), r.path,
                           "return")
    /\ run' = NoRun
    /\ pc' = Idle
    /\ UNCHANGED << keys, question, answer, reroll, resolved, cat_image, image >>

\* a preset Get Answer that does not set has_asked
GetAnswerForPresetReturn_no_flag(env) ==
    /\ pc.at = "call"
    /\ pc.op = "preset"
    /\ LET r == get_ai_answer(pc.q, pc.temperature, pc.max_tokens, env)
       IN  /\ history' = Append(history, [question |-> pc.q, answer |-> r.value,
                                          rerolls |-> 0])
           /\ UNCHANGED has_asked
           /\ last' = Step("preset", "preset", pc.q, r.value, TRUE, Len(r.calls), r.path,
                           "return")
    /\ run' = NoRun
    /\ pc' = Idle
    /\ UNCHANGED << keys, question, answer, reroll, resolved, cat_image, image >>

\* a preset Get Answer that also makes the preset the current question
GetAnswerForPresetReturn_sets_current(env) ==
    /\ pc.at = "call"
    /\ pc.op = "preset"
    /\ LET r == get_ai_answer(pc.q, pc.temperature, pc.max_tokens, env)
       IN  /\ history' = Append(history, [question |-> pc.q, answer |-> r.value,
                                          rerolls |-> 0])
           /\ has_asked' = TRUE
           /\ question' = pc.q
           /\ answer' = r.value
           /\ reroll' = 0
           /\ last' = Step("preset", "preset", pc.q, r.value, TRUE, Len(r.calls), r.path,
                           "return")
    /\ run' = NoRun
    /\ pc' = Idle
    /\ UNCHANGED << keys, resolved, cat_image, image >>

\* "Get Answer" on preset_page, from the return of get_ai_answer:
\* history.append and has_asked = True
GetAnswerForPresetReturn(env) ==
    /\ pc.at = "call"
    /\ pc.op = "preset"
    /\ LET r == get_ai_answer(pc.q, pc.temperature, pc.max_tokens, env)
       IN  /\ history' = Append(history, [question |-> pc.q, answer |-> r.value,
                                          rerolls |-> 0])
           /\ has_asked' = TRUE
           /\ last' = Step("preset", "preset", pc.q, r.value, TRUE, Len(r.calls), r.path,
                           "return")
    /\ run' = NoRun
    /\ pc' = Idle
    /\ UNCHANGED << keys, question, answer, reroll, resolved, cat_image, image >>
\* the script run enters the `with st.spinner(...)` block and calls
\* get_ai_answer (get_ai_image for Generate with AI), in which it stays until
\* the call returns
EnterSpinner ==
    /\ pc.at = "spinner"
    /\ pc' = [pc EXCEPT !.at = "call"]
    /\ last' = [last EXCEPT !.phase = "call"]
    /\ UNCHANGED << keys, question, answer, reroll, history, has_asked, resolved,
                    cat_image, image, run >>

\* the script run is ended at the st.spinner(...) call (the user has
\* interacted meanwhile): what the handler wrote before it stays, the rest of
\* the handler never runs and no request is made
StopAtSpinner ==
    /\ pc.at = "spinner"
    /\ pc' = Idle
    /\ last' = Step(pc.op, last.page, pc.q, "", TRUE, 0, "none", "stopped")
    /\ run' = NoRun
    /\ UNCHANGED << keys, question, answer, reroll, history, has_asked, resolved,
                    cat_image, image >>

\* chillspace_page() of ai_answer_rng.py run with no button pressed
RngVisitChillspace ==
    /\ pc.at = "idle"
    /\ keys' = keys \cup {"cat_image"}
    /\ last' = Step("chill", "chillspace", "", "", TRUE, 0, "none", "run")
    /\ run' = NoRun
    /\ UNCHANGED << question, answer, reroll, history, has_asked, resolved, cat_image,
                    image, pc >>

\* the three "Switch to ..." buttons of the Chillspace sidebar of
\* ai_answer_rng.py
RngSwitchImage(url) ==
    /\ pc.at = "idle"
    /\ "cat_image" \in keys
    /\ cat_image' = PyStr(url)
    /\ last' = Step("chill", "chillspace", "", "", TRUE, 0, "none", "run")
    /\ run' = NoRun
    /\ UNCHANGED << keys, question, answer, reroll, history, has_asked, resolved,
                    image, pc >>

Init ==
    /\ InitSession
    /\ InitRngImage
    /\ InitSessions
    /\ resolved = NotResolved

Next ==
    \/ VisitHome /\ UNCHANGED << sessions, actor >>
    \/ \E page \in {"home", "history", "preset"} :
          ClearHistory(page) /\ UNCHANGED << sessions, actor >>
    \/ \E q \in TextInputs, t \in SessionTemperatures, m \in SessionMaxTokens :
          GetAnswer(q, t, m) /\ UNCHANGED << sessions, actor >>
    \/ \E t \in SessionTemperatures, m \in SessionMaxTokens :
          RerollAnswer(t, m) /\ UNCHANGED << sessions, actor >>
    \/ \E i \in PresetChoices, t \in SessionTemperatures, m \in SessionMaxTokens :
          GetAnswerForPreset(i, t, m) /\ UNCHANGED << sessions, actor >>
    \/ EnterSpinner /\ UNCHANGED << sessions, actor >>
    \/ StopAtSpinner /\ UNCHANGED << sessions, actor >>
    \/ \E env \in SessionEnvs : GetAnswerReturn(env) /\ UNCHANGED << sessions, actor >>
    \/ \E env \in SessionEnvs : RerollAnswerReturn(env) /\ UNCHANGED << sessions, actor >>
    \/ \E env \in SessionEnvs :
          GetAnswerForPresetReturn(env) /\ UNCHANGED << sessions, actor >>
    \/ RngVisitChillspace /\ UNCHANGED << sessions, actor >>
    \/ \E url \in SwitchImages : RngSwitchImage(url) /\ UNCHANGED << sessions, actor >>

Spec == Init /\ [][Next]_vars

\* ------------------------------------------- specification of the resolver
InitResolver ==
    /\ InitSession
    /\ InitImage
    /\ InitSessions
    /\ resolved \in [question : ResolverQuestions, temperature : Temperatures,
                     max_tokens : MaxTokens, env : Envs,
                     called : {FALSE}, result : {NoResult}, image : {NoImageResult}]

\* one call of get_ai_answer and one of get_ai_image (ai_boa.py) under the
\* same configuration
Resolve ==
    /\ ~resolved.called
    /\ resolved' = [resolved EXCEPT
                      !.called = TRUE,
                      !.result = get_ai_answer(resolved.question, resolved.temperature,
                                               resolved.max_tokens, resolved.env),
                      !.image = get_ai_image(resolved.question, resolved.env)]
    /\ UNCHANGED << keys, question, answer, reroll, history, has_asked, last,
                    cat_image, image, run, pc >>

NextResolver == Resolve /\ UNCHANGED << sessions, actor >>

SpecResolver == InitResolver /\ [][NextResolver]_vars

\* ------------------------------------------ specification of the image pages
\* chillspace_page() run with no button pressed (ai_boa.py)
VisitChillspace ==
    /\ pc.at = "idle"
    /\ keys' = keys \cup {"cat_image"}
    /\ UNCHANGED << question, answer, reroll, history, has_asked, last, resolved,
                    cat_image, image, run, pc >>

\* the three "Switch to ..." buttons of the Chillspace sidebar (ai_boa.py)
SwitchImage(url) ==
    /\ pc.at = "idle"
    /\ "cat_image" \in keys
    /\ cat_image' = PyStr(url)
    /\ UNCHANGED << keys, question, answer, reroll, history, has_asked, last, resolved,
                    image, run, pc >>

\* "Generate with AI" in the Chillspace sidebar (ai_boa.py), up to the
\* st.spinner(...) call: the test of the prompt, and the warning branch
GenerateWithAI(image_prompt) ==
    /\ pc.at = "idle"
    /\ "cat_image" \in keys
    /\ IF Truthy(image_prompt)
       THEN /\ pc' = AtSpinner("image", image_prompt, 0, 0)
            /\ last' = Step("image", "chillspace", image_prompt, "", TRUE, 0, "none", "press")
            /\ UNCHANGED image
       ELSE /\ image' = [NoImage EXCEPT !.app = "ai_boa", !.kind = "return",
                            !.shown = "Please describe the character you want to generate."]
            /\ last' = Step("image", "chillspace", image_prompt, "", FALSE, 0, "none", "run")
            /\ UNCHANGED pc
    /\ UNCHANGED << keys, question, answer, reroll, history, has_asked, resolved,
                    cat_image, run >>

\* "Generate with AI", from the return of get_ai_image: whatever it returned
\* is stored as cat_image
GenerateWithAIReturn(env) ==
    /\ pc.at = "call"
    /\ pc.op = "image"
    /\ LET r == get_ai_image(pc.q, env)
       IN  /\ cat_image' = r.value
           /\ image' = [app |-> "ai_boa", prompt |-> pc.q, shown |-> "",
                         resp |-> IF r.primary = "ok" THEN env.resp ELSE NoResponse]
                           @@ r
           /\ last' = Step("image", "chillspace", pc.q, "", TRUE, Len(r.calls), "none",
                           "return")
    /\ pc' = Idle
    /\ UNCHANGED << keys, question, answer, reroll, history, has_asked, resolved, run >>

\* "Generate Image" of the form in ai_image_generator.py
SubmitImageForm(prompt_text, api_key_present, ctx, p1, p2) ==
    /\ LET r == submit_image_form(prompt_text, api_key_present, ctx, p1, p2)
       IN  image' = [app |-> "ai_image_generator", prompt |-> prompt_text,
                     resp |-> IF r.primary = "ok" THEN p1.resp ELSE NoResponse] @@ r
    /\ UNCHANGED << keys, question, answer, reroll, history, has_asked, last, resolved,
                    cat_image, run, pc >>

InitImageSpec ==
    /\ InitSession
    /\ InitImage
    /\ InitSessions
    /\ resolved = NotResolved

NextImage ==
    \/ VisitChillspace /\ UNCHANGED << sessions, actor >>
    \/ \E url \in SwitchImages : SwitchImage(url) /\ UNCHANGED << sessions, actor >>
    \/ \E image_prompt \in ImagePrompts :
          GenerateWithAI(image_prompt) /\ UNCHANGED << sessions, actor >>
    \/ EnterSpinner /\ UNCHANGED << sessions, actor >>
    \/ StopAtSpinner /\ UNCHANGED << sessions, actor >>
    \/ \E env \in ImageEnvs : GenerateWithAIReturn(env) /\ UNCHANGED << sessions, actor >>
    \/ \E prompt_text \in ImagePrompts, api_key_present \in BOOLEAN, ctx \in Contexts,
          p1 \in StageOutcomes, p2 \in StageOutcomes :
          SubmitImageForm(prompt_text, api_key_present, ctx, p1, p2)
            /\ UNCHANGED << sessions, actor >>

SpecImage == InitImageSpec /\ [][NextImage]_vars

\* ------------------------------------------- ai_boa.py on a session's store
\* The handlers of ai_boa.py as functions of the st.session_state they run on,
\* one function for each part of a handler that runs without interruption.
\* a is the string get_ai_answer returned to the handler.
\* home() with no button pressed
boa_home(store) == [store EXCEPT !.keys = @ \cup HomeKeys]

\* "Clear History" of home, history_page and preset_page
boa_clear_history(store) ==
    [store EXCEPT !.history = << >>, !.question = "", !.answer = "", !.reroll = 0,
                  !.keys = @ \cup HomeKeys]

\* "Get Answer" on home, up to the st.spinner(...) call
boa_get_answer(store, q) ==
    IF Truthy(strip(q))
    THEN [store EXCEPT !.question = q, !.pc = [at |-> "spinner", op |-> "ask", q |-> q]]
    ELSE store

\* "Get Answer" on home, from the return of get_ai_answer
boa_get_answer_return(store, a) ==
    [store EXCEPT !.answer = a, !.reroll = 0,
                  !.history = Append(@, [question |-> store.pc.q, answer |-> a,
                                         rerolls |-> 0]),
                  !.has_asked = TRUE, !.pc = SessionIdle]

\* "Reroll Answer" on home, up to the st.spinner(...) call
boa_reroll_answer(store) ==
    IF Truthy(store.question)
    THEN [store EXCEPT !.reroll = @ + 1,
                       !.pc = [at |-> "spinner", op |-> "reroll", q |-> store.question]]
    ELSE store

\* "Reroll Answer" on home, from the return of get_ai_answer
boa_reroll_answer_return(store, a) ==
    LET h == store.history
    IN  [store EXCEPT !.answer = a,
                      !.history = IF h # << >>
                                  THEN [h EXCEPT ![Len(h)] =
                                           [@ EXCEPT !.answer = a, !.rerolls = store.reroll]]
                                  ELSE h,
                      !.pc = SessionIdle]

\* "Get Answer for Preset" on preset_page, up to the st.spinner(...) call
boa_preset_get_answer(store, i) ==
    [store EXCEPT !.pc = [at |-> "spinner", op |-> "preset", q |-> preset_questions[i]]]

\* "Get Answer for Preset" that also shows the preset as the current question
\* and answer of home
boa_preset_get_answer_return_sets_current(store, a) ==
    [store EXCEPT !.question = store.pc.q, !.answer = a, !.reroll = 0,
                  !.history = Append(@, [question |-> store.pc.q, answer |-> a,
                                         rerolls |-> 0]),
                  !.has_asked = TRUE, !.pc = SessionIdle]

\* "Get Answer for Preset" on preset_page, from the return of get_ai_answer
boa_preset_get_answer_return(store, a) ==
    [store EXCEPT !.history = Append(@, [question |-> store.pc.q, answer |-> a,
                                         rerolls |-> 0]),
                  !.has_asked = TRUE, !.pc = SessionIdle]

\* the script run enters the spinner block and calls get_ai_answer
boa_enter_spinner(store) == [store EXCEPT !.pc.at = "call"]

\* the script run is ended at the st.spinner(...) call
boa_stop_at_spinner(store) == [store EXCEPT !.pc = SessionIdle]

\* the part of a handler that follows the return of get_ai_answer
boa_return(store, a) ==
    IF store.pc.op = "ask" THEN boa_get_answer_return(store, a)
    ELSE IF store.pc.op = "reroll" THEN boa_reroll_answer_return(store, a)
    ELSE boa_preset_get_answer_return(store, a)

\* ------------------------------------------------- the two variants, side by side
\* The session of ai_answer_rng.py (the variables question, answer, ...) and
\* session 1 of ai_boa.py are given the same button, the same input, the same
\* resolver outcome and the same end of the script run in every step.
BothVisitHome ==
    /\ VisitHome
    /\ sessions' = [sessions EXCEPT ![1] = boa_home(@)]
    /\ actor' = 1

BothClearHistory(page) ==
    /\ ClearHistory(page)
    /\ sessions' = [sessions EXCEPT ![1] = boa_clear_history(@)]
    /\ actor' = 1

BothGetAnswer(q, temperature, max_tokens) ==
    /\ GetAnswer(q, temperature, max_tokens)
    /\ sessions' = [sessions EXCEPT ![1] = boa_get_answer(@, q)]
    /\ actor' = 1

BothRerollAnswer(temperature, max_tokens) ==
    /\ RerollAnswer(temperature, max_tokens)
    /\ sessions' = [sessions EXCEPT ![1] = boa_reroll_answer(@)]
    /\ actor' = 1

BothGetAnswerForPreset(i, temperature, max_tokens) ==
    /\ GetAnswerForPreset(i, temperature, max_tokens)
    /\ sessions' = [sessions EXCEPT ![1] = boa_preset_get_answer(@, i)]
    /\ actor' = 1

BothEnterSpinner ==
    /\ EnterSpinner
    /\ sessions' = [sessions EXCEPT ![1] = boa_enter_spinner(@)]
    /\ actor' = 1

BothStopAtSpinner ==
    /\ StopAtSpinner
    /\ sessions' = [sessions EXCEPT ![1] = boa_stop_at_spinner(@)]
    /\ actor' = 1

BothReturn(env) ==
    /\ \/ GetAnswerReturn(env)
       \/ RerollAnswerReturn(env)
       \/ GetAnswerForPresetReturn(env)
    /\ sessions' = [sessions EXCEPT ![1] =
                       boa_return(@, get_ai_answer(sessions[1].pc.q, pc.temperature,
                                                   pc.max_tokens, env).value)]
    /\ actor' = 1

InitVariants ==
    /\ InitSession
    /\ InitRngImage
    /\ InitSessions
    /\ resolved = NotResolved

NextVariants ==
    \/ BothVisitHome
    \/ \E page \in {"home", "history", "preset"} : BothClearHistory(page)
    \/ \E q \in TextInputs, t \in SessionTemperatures, m \in SessionMaxTokens :
          BothGetAnswer(q, t, m)
    \/ \E t \in SessionTemperatures, m \in SessionMaxTokens : BothRerollAnswer(t, m)
    \/ \E i \in PresetChoices, t \in SessionTemperatures, m \in SessionMaxTokens :
          BothGetAnswerForPreset(i, t, m)
    \/ BothEnterSpinner
    \/ BothStopAtSpinner
    \/ \E env \in SessionEnvs : BothReturn(env)

SpecVariants == InitVariants /\ [][NextVariants]_vars
\* ------------------------------------------------------------- properties
sessionFields == << question, answer, reroll, history, has_asked >>

\* the step is the part of Get Answer, Reroll Answer or the preset Get Answer
\* that follows the return of get_ai_answer: the handler has run to its end
askReturns == last'.op = "ask" /\ last'.phase = "return"

rerollReturns == last'.op = "reroll" /\ last'.phase = "return"

presetReturns == last'.op = "preset" /\ last'.phase = "return"

askOrPresetReturns == askReturns \/ presetReturns

\* question and reroll as they were when the button of the running handler was
\* pressed
pre_question == IF pc.at = "idle" THEN question ELSE pc.pre.question

pre_reroll == IF pc.at = "idle" THEN reroll ELSE pc.pre.reroll

\* C1: an accepted Get Answer with question q whose resolver call returns a
\* ends with question = q, answer = a, reroll = 0, one more history entry than
\* when the button was pressed, and the last entry equal to
\* {question: q, answer: a, rerolls: 0}.
C1_AskEffect ==
    [][ askReturns =>
          /\ ask_accepts(last'.q)
          /\ question' = last'.q
          /\ answer' = last'.a
          /\ reroll' = 0
          /\ Len(history') = Len(pc.pre.history) + 1
          /\ history' = Append(pc.pre.history,
                               [question |-> last'.q, answer |-> last'.a, rerolls |-> 0]) ]_vars

\* a second question, asked after the first was rerolled, has been answered
C1_Witness ==
    /\ last.op = "ask" /\ last.phase = "return"
    /\ last.q = " y " /\ question = " y " /\ reroll = 0
    /\ Len(history) = 2 /\ history[1].rerolls > 0

\* C2 as stated: Reroll Answer with a non-empty current question is accepted
\* and, when it has run, reroll is 1 more than when the button was pressed, the
\* length of history is the same, and the last history entry's answer and
\* rerolls are the new answer and reroll.
C2_RerollEffect ==
    [][ /\ (last'.op = "reroll" /\ last'.phase \in {"run", "press"} /\ Truthy(question) =>
               last'.accepted)
        /\ (rerollReturns =>
               /\ reroll' = pc.pre.reroll + 1
               /\ answer' = last'.a
               /\ Len(history') = Len(pc.pre.history)
               /\ history' # << >>
               /\ history'[Len(history')].answer = answer'
               /\ history'[Len(history')].rerolls = reroll') ]_vars

\* C3: Get Answer with a question whose stripped form is empty is rejected
\* and leaves question, answer, reroll, history and has_asked as they were; no
\* resolver call is started.
C3_EmptyAskRejected ==
    [][ (last'.op = "ask" /\ strip(last'.q) = "") =>
          /\ ~last'.accepted
          /\ UNCHANGED sessionFields
          /\ pc'.at = "idle" ]_vars

\* a whitespace-only question (space, tab, line tabulation) was rejected in a
\* session that holds an answer
C3_Witness ==
    /\ last.op = "ask" /\ ~last.accepted
    /\ last.q = " \t" \o VT
    /\ Truthy(question) /\ history # << >>

\* C4: Reroll Answer while the current question is the empty string is
\* rejected and changes no session field; no resolver call is started.
C4_RerollWithoutQuestionRejected ==
    [][ (last'.op = "reroll" /\ question = "") =>
          /\ ~last'.accepted
          /\ UNCHANGED sessionFields
          /\ pc'.at = "idle" ]_vars

\* a reroll was rejected although history holds (preset) entries
C4_Witness ==
    /\ last.op = "reroll" /\ ~last.accepted
    /\ question = "" /\ history # << >>

\* C5: after Clear History, has_asked is false.
C5_ClearResetsHasAsked == last.op = "clear" => has_asked = FALSE

\* C6: Clear History sets question and answer to "", reroll to 0 and history
\* to the empty list; a second Clear History right after the first changes
\* nothing.
C6_ClearEffectIdempotent ==
    [][ last'.op = "clear" =>
          /\ question' = "" /\ answer' = "" /\ reroll' = 0 /\ history' = << >>
          /\ (last.op = "clear" => session' = session) ]_vars

\* history was cleared from the history page
C6_Witness ==
    /\ last.op = "clear" /\ last.page = "history"
    /\ question = "" /\ answer = "" /\ reroll = 0 /\ history = << >>
    /\ has_asked

\* C7: get_ai_answer hands its caller a string for every outcome of the key
\* lookup, the client construction, the completion call and the response
\* shape; no exception reaches the caller.
C7_ResolverNeverRaises ==
    resolved.called => resolved.result.kind = "return"

\* the call returned a response without a usable first choice
C7_Witness ==
    /\ resolved.called
    /\ resolved.env.resp.shape = "none_content"
    /\ resolved.result.path = "bad_response"
    /\ resolved.result.value = resolved.env.resp.repr

\* C8 as stated: every failure result of get_ai_answer (missing key, client
\* construction failure, completion call failure) starts with "Error", and
\* no success does.
C8_ErrorMarker ==
    resolved.called =>
        /\ (resolved.result.path \in {"client_error", "call_failed"}
               => startswith(resolved.result.value, "Error"))
        /\ (resolved.result.path = "ok"
               => ~startswith(resolved.result.value, "Error"))

\* C9: when the primary image call of get_ai_image fails, exactly one further
\* call is issued, with a prompt different from the first; no request issues a
\* third call.
C9_FallbackPolicy ==
    resolved.called =>
        /\ Len(resolved.image.calls) <= 2
        /\ (resolved.image.primary = "failed" =>
              /\ Len(resolved.image.calls) = 2
              /\ resolved.image.calls[2].content # resolved.image.calls[1].content)

\* C10 as stated: no image request ends with an exception reaching the
\* caller, and one whose primary call failed ends by returning a string.
C10_ImageNeverRaises ==
    /\ image.kind # "raise"
    /\ (image.primary = "failed" =>
          /\ image.kind = "return"
          /\ image.value[1] = "str")

\* C11: when the primary request of get_ai_image returns and its response
\* text holds no URL, get_ai_image returns a string or goes on to a second
\* request; it never returns None.
C11_NoMatchReturnsString ==
    (resolved.called /\ resolved.image.primary = "ok"
        /\ resolved.env.resp.shape = "text"
        /\ ~url_search(resolved.env.resp.content).found) =>
        /\ resolved.image.kind = "return"
        /\ (resolved.image.value[1] = "str" \/ Len(resolved.image.calls) = 2)

\* C12: after a Get Answer for q and n Reroll Answer that all ran to their end,
\* with nothing else in between, reroll = n, answer is the result of the last
\* resolver call, and history is the history from before the Get Answer plus
\* the one entry {question: q, answer: last result, rerolls: n}.
C12_AskThenRerolls ==
    (run.active /\ pc.at = "idle") =>
        /\ question = run.q
        /\ reroll = run.n
        /\ answer = last.a
        /\ history = Append(run.base, [question |-> run.q, answer |-> last.a,
                                       rerolls |-> run.n])

\* a Get Answer on a non-empty history followed by MaxReroll rerolls
C12_Witness ==
    /\ run.active
    /\ pc.at = "idle"
    /\ run.n = MaxReroll
    /\ run.base # << >>
    /\ last.op = "reroll" /\ last.phase = "return"

\* C13 as stated, for the handlers that run to their end: reroll is not
\* smaller after the handler than before it while question keeps its value,
\* and it is set to 0 exactly by the Get Answer that changes question.
C13_ResetOnlyOnQuestionChange ==
    [][ last'.phase \in {"run", "return"} =>
          /\ (question' = pre_question => reroll' >= pre_reroll)
          /\ (reroll' < pre_reroll => askReturns /\ question' # pre_question)
          /\ (askReturns /\ question' # pre_question => reroll' = 0) ]_vars

\* C13, amended: reroll decreases only in a Get Answer that runs to its end or
\* a Clear History; each of these sets it to 0, whether or not the value of
\* question changes (asking the current question again also starts from 0).
C13_ResetOnAskOrClear ==
    [][ /\ (reroll' < reroll => askReturns \/ last'.op = "clear")
        /\ (askReturns \/ last'.op = "clear" => reroll' = 0) ]_vars

\* the current question was asked again after it had been rerolled
C13_Witness ==
    /\ last.op = "ask" /\ last.phase = "return"
    /\ Len(history) = 2
    /\ history[1].question = question
    /\ history[1].rerolls > 0
    /\ reroll = 0

\* C14 as stated: whenever Get Answer, the preset Get Answer or Reroll Answer
\* writes a history entry, the rerolls it stores is the session's reroll
\* counter at that moment.
C14_EntryRerollsIsSessionReroll ==
    [][ (last'.phase = "return" /\ history' # << >>) =>
            history'[Len(history')].rerolls = reroll' ]_vars

\* C14, amended: the entry written by Get Answer or Reroll Answer stores the
\* session's reroll counter; the entry appended by the preset Get Answer stores
\* 0 while the session's counter keeps its value, whatever that is.
C14_EntryRerollsByWriter ==
    [][ /\ ((askReturns \/ rerollReturns) /\ history' # << >> =>
              history'[Len(history')].rerolls = reroll')
        /\ (presetReturns =>
              history'[Len(history')].rerolls = 0 /\ reroll' = reroll) ]_vars

\* a preset entry was appended while the session's reroll counter was not 0
C14_Witness ==
    /\ last.op = "preset" /\ last.phase = "return"
    /\ reroll > 0
    /\ history[Len(history)].rerolls = 0

\* C15: a step other than Clear History keeps every entry but the last as it
\* is and keeps every entry's question; a Get Answer that runs to its end makes
\* history one longer, no step of a Reroll Answer changes its length, and only
\* the return of a Reroll Answer changes the answer or rerolls of the entry
\* that was last.
C15_HistoryAppendOnly ==
    [][ last'.op # "clear" =>
          /\ Len(history') >= Len(history)
          /\ \A i \in 1..Len(history) : history'[i].question = history[i].question
          /\ \A i \in 1..(Len(history) - 1) : history'[i] = history[i]
          /\ (askReturns => Len(history') = Len(history) + 1)
          /\ (last'.op = "reroll" => Len(history') = Len(history))
          /\ (history # << >> /\ history'[Len(history)] # history[Len(history)]
                 => rerollReturns) ]_vars

\* a reroll has overwritten the second entry, which a preset had appended
C15_Witness ==
    /\ last.op = "reroll" /\ last.phase = "return"
    /\ Len(history) = 2
    /\ history[2].question = preset_questions[1]
    /\ history[2].rerolls > 0
    /\ history[1].rerolls = 0

\* C16: has_asked starts False, every Get Answer (home or preset) that runs to
\* its end leaves it True, nothing else turns it True, and once True no step
\* other than Clear History turns it False.
C16_HasAskedLatch ==
    /\ ~has_asked
    /\ [][ /\ (askOrPresetReturns => has_asked')
           /\ (~has_asked /\ has_asked' => askOrPresetReturns)
           /\ (has_asked /\ ~has_asked' => last'.op = "clear") ]_vars

\* the first question of the session was a preset, and it set the flag
C16_Witness ==
    /\ has_asked
    /\ last.op = "preset" /\ last.phase = "return"
    /\ Len(history) = 1
    /\ question = ""

\* C17 as stated: a rejected Get Answer or Reroll Answer sends no request and
\* keeps answer; every accepted Get Answer, Reroll Answer or preset Get Answer
\* that runs to its end has sent exactly one request.
C17_ExactlyOneCall ==
    [][ /\ (last'.op \in {"ask", "reroll"} /\ ~last'.accepted =>
               last'.ncalls = 0 /\ answer' = answer)
        /\ (last'.phase = "return" => last'.ncalls = 1) ]_vars

\* C17, amended: a rejected Get Answer or Reroll Answer sends no request,
\* starts no resolver call and keeps answer; an accepted Get Answer, Reroll
\* Answer or preset Get Answer goes on to its resolver call, no request is sent
\* and answer is kept until that call returns, and the call has sent one
\* request, or none when it cannot build its client (no API key, or the
\* constructor raises); a run ended before the call sends none.
C17_AtMostOneCall ==
    [][ /\ (last'.op \in {"ask", "reroll"} /\ ~last'.accepted =>
               last'.ncalls = 0 /\ answer' = answer /\ pc'.at = "idle")
        /\ (last'.phase = "press" => last'.accepted /\ pc'.at = "spinner")
        /\ (last'.phase \in {"press", "call", "stopped"} =>
               last'.ncalls = 0 /\ answer' = answer)
        /\ (last'.phase = "return" =>
               last'.ncalls = IF last'.path = "client_error" THEN 0 ELSE 1) ]_vars

\* a Get Answer that sent no request, after one that sent one
C17_Witness ==
    /\ last.op = "ask" /\ last.phase = "return"
    /\ last.ncalls = 0
    /\ last.path = "client_error"
    /\ Len(history) = 2
    /\ history[1].answer = "A"

\* C18: while the script run of Get Answer or Reroll Answer is in
\* get_ai_answer, question, answer, reroll, history and has_asked still hold
\* the values they had when the button was pressed.
C18_NoMutationBeforeReturn ==
    (pc.at = "call" /\ pc.op \in {"ask", "reroll"}) =>
        /\ question = pc.pre.question
        /\ answer = pc.pre.answer
        /\ reroll = pc.pre.reroll
        /\ history = pc.pre.history
        /\ has_asked = pc.pre.has_asked

\* C19: the preset Get Answer for preset question p, once its resolver call
\* has returned, has appended the one entry
\* {question: p, answer: resolver result, rerolls: 0}, leaves has_asked True,
\* and has kept question, answer and reroll as they were when the button was
\* pressed.
C19_PresetEffect ==
    [][ presetReturns =>
          /\ last'.q \in { preset_questions[i] : i \in PresetChoices }
          /\ history' = Append(pc.pre.history,
                               [question |-> last'.q, answer |-> last'.a, rerolls |-> 0])
          /\ has_asked'
          /\ question' = pc.pre.question
          /\ answer' = pc.pre.answer
          /\ reroll' = pc.pre.reroll ]_vars

\* a preset was answered while a rerolled question was the current one
C19_Witness ==
    /\ last.op = "preset" /\ last.phase = "return"
    /\ Truthy(question)
    /\ reroll > 0
    /\ answer # last.a
    /\ Len(history) = 2

\* C20: whenever no script run is under way, Clear History is accepted; while
\* history has room, every preset Get Answer is accepted and, once home has
\* been shown, every Get Answer whose question is not blank is accepted, also
\* when the answer stored before is an error. A run that has reached its
\* spinner can go on, and a Get Answer whose resolver call returns stores the
\* result of that call as answer.
C20_NoStickyFailure ==
    /\ pc.at = "idle" =>
          /\ \A page \in {"history", "preset"} : ENABLED ClearHistory(page)
          /\ Len(history) < MaxHist =>
                \A i \in PresetChoices : ENABLED GetAnswerForPreset(i, 8, 300)
          /\ (Len(history) < MaxHist /\ HomeKeys \subseteq keys) =>
                \A q \in { t \in TextInputs : ask_accepts(t) } :
                    ENABLED ( /\ GetAnswer(q, 8, 300)
                              /\ last'.accepted
                              /\ question' = q )
    /\ pc.at = "spinner" => ENABLED EnterSpinner
    /\ (pc.at = "call" /\ pc.op = "ask") =>
          \A env \in SessionEnvs :
              ENABLED ( /\ GetAnswerReturn(env)
                        /\ answer' = get_ai_answer(pc.q, pc.temperature, pc.max_tokens,
                                                   env).value )
    /\ (pc.at = "call" /\ pc.op = "preset") =>
          \A env \in SessionEnvs : ENABLED GetAnswerForPresetReturn(env)

\* the question of a failed Get Answer was asked again and got an answer
C20_Witness ==
    /\ last.op = "ask" /\ last.phase = "return"
    /\ Len(history) = 2
    /\ history[1].question = question
    /\ startswith(history[1].answer, "Error")
    /\ history[2].question = question
    /\ answer = "A"
    /\ history[2].answer = "A"

\* C22 as stated: the key is the environment value, else the secrets value,
\* else the call returns the missing-key message without a request; every
\* request a resolver sends goes to the configured base URL or else the
\* default one, and names the configured model or else a fixed default.
C22_ConfiguredModelUsed ==
    resolved.called =>
        LET env == resolved.env
            envkey == IF env.API_KEY # "" THEN env.API_KEY ELSE env.environ_API_KEY
            seckey == IF env.secrets_raises THEN "" ELSE env.secrets_API_KEY
            key == IF envkey # "" THEN envkey ELSE seckey
            base == IF env.API_BASE # "" THEN env.API_BASE
                    ELSE IF env.POE_BASE_URL # "" THEN env.POE_BASE_URL
                    ELSE "https://api.poe.com/v1"
        IN  /\ key = "" =>
                  /\ resolved.result.value = KeyNotFound
                  /\ resolved.result.calls = << >>
                  /\ resolved.image.value = PyStr(KeyNotFound)
                  /\ resolved.image.calls = << >>
            /\ (key # "" /\ env.ctor = "") =>
                  /\ Len(resolved.result.calls) = 1
                  /\ resolved.result.calls[1].api_key = key
                  /\ resolved.result.calls[1].base_url = base
                  /\ resolved.result.calls[1].model =
                        (IF env.MODEL # "" THEN env.MODEL ELSE "gpt-3.5-turbo")
                  /\ Len(resolved.image.calls) = 1
                  /\ resolved.image.calls[1].model =
                        (IF env.MODEL # "" THEN env.MODEL ELSE "Imagen-4")

\* C22, amended: key and base URL as stated, for both resolvers; the model is
\* the configured one or else gpt-3.5-turbo in get_ai_answer only, while
\* get_ai_image always names Imagen-4, whatever MODEL is set to.
C22_ConfigResolution ==
    resolved.called =>
        LET env == resolved.env
            envkey == IF env.API_KEY # "" THEN env.API_KEY ELSE env.environ_API_KEY
            seckey == IF env.secrets_raises THEN "" ELSE env.secrets_API_KEY
            key == IF envkey # "" THEN envkey ELSE seckey
            base == IF env.API_BASE # "" THEN env.API_BASE
                    ELSE IF env.POE_BASE_URL # "" THEN env.POE_BASE_URL
                    ELSE "https://api.poe.com/v1"
        IN  /\ key = "" =>
                  /\ resolved.result.value = KeyNotFound
                  /\ resolved.result.calls = << >>
                  /\ resolved.image.value = PyStr(KeyNotFound)
                  /\ resolved.image.calls = << >>
            /\ (key # "" /\ env.ctor = "") =>
                  /\ Len(resolved.result.calls) = 1
                  /\ resolved.result.calls[1].api_key = key
                  /\ resolved.result.calls[1].base_url = base
                  /\ resolved.result.calls[1].model =
                        (IF env.MODEL # "" THEN env.MODEL ELSE "gpt-3.5-turbo")
                  /\ Len(resolved.image.calls) = 1
                  /\ resolved.image.calls[1].model = "Imagen-4"

\* only the secrets store holds a key, and base URL and model are configured
C22_Witness ==
    /\ resolved.called
    /\ resolved.env.API_KEY = ""
    /\ resolved.env.environ_API_KEY = ""
    /\ ~resolved.env.secrets_raises
    /\ resolved.env.secrets_API_KEY = "k-sec"
    /\ resolved.env.API_BASE = ""
    /\ resolved.env.POE_BASE_URL = "https://poe/v1"
    /\ resolved.env.MODEL = "gpt-4o"
    /\ Len(resolved.result.calls) = 1
    /\ resolved.result.calls[1].api_key = "k-sec"
    /\ Len(resolved.image.calls) = 1
\* C23: whenever a handler writes the answer of a history entry, the answer
\* comes from a get_ai_answer call made with that entry's question, so every
\* entry pairs a question with an answer resolved for it.
C23_AnswerMatchesQuestion ==
    [][ (last'.phase = "return" /\ history' # << >>) =>
            history'[Len(history')].question = last'.q ]_vars

\* C24: whenever the current question is non-empty, history is non-empty, so
\* the Reroll Answer that is accepted has a last entry to overwrite.
C24_QuestionImpliesHistory ==
    reroll_accepts(question) => history # << >>

\* C25: given the same buttons, inputs, resolver results and ends of script
\* runs, ai_answer_rng.py and ai_boa.py hold the same question, answer, reroll,
\* history and has_asked after every step.
C25_VariantsAgree ==
    /\ sessions[1].question = question
    /\ sessions[1].answer = answer
    /\ sessions[1].reroll = reroll
    /\ sessions[1].history = history
    /\ sessions[1].has_asked = has_asked
    /\ sessions[1].pc.at = pc.at

\* both variants have been asked a question again after its first answer
\* was a failure
C25_Witness ==
    /\ actor = 1
    /\ last.op = "ask" /\ last.phase = "return"
    /\ Len(history) = 2
    /\ startswith(history[1].answer, "Error")
    /\ sessions[1].history = history
    /\ sessions[1].question = question
    /\ sessions[1].has_asked

\* C26: the image shown on the Chillspace page is always an http or https
\* URL, and a Generate with AI with an empty prompt sends no request.
C26_CatImageIsUrl ==
    /\ cat_image[1] = "str"
    /\ startswith(cat_image[2], "http://") \/ startswith(cat_image[2], "https://")
    /\ (image.app = "ai_boa" /\ ~Truthy(image.prompt)) => image.calls = << >>
====
